---- MODULE Spec2Model ----
(***************************************************************************)
(* A model of washing_out.py: Bayesian updating of several agents' priors  *)
(* (update), one randomly drawn experiment (random_update) and a repeated  *)
(* experiment recording every belief state (washing_out).                  *)
(*                                                                         *)
(* Numbers.  The arrays hold floating-point numbers.  They are modelled as *)
(* exact fractions <<num, den>> in lowest terms with den >= 0, where       *)
(* den = 0 stands for the three special values the division of line 37     *)
(* can produce: <<0,0>> is NaN, <<1,0>> is +inf and <<-1,0>> is -inf.      *)
(* Rounding is not modelled.                                               *)
(*                                                                         *)
(* Arrays.  A 2-D array is a sequence of rows.  Python indexes from 0; the *)
(* model keeps outcome indexes 0-based and adds 1 where it indexes a       *)
(* sequence.  Array objects live in `heap`, and names hold references      *)
(* (indexes into heap), so that aliasing (slices[0] is priors_matrix) and  *)
(* in-place writes are expressible.                                        *)
(***************************************************************************)
EXTENDS Integers, Sequences, FiniteSets

VARIABLES
    heap,               \* the array objects allocated so far (sequence of 2-D arrays)
    priors_matrix,      \* the caller's priors array (a reference into heap)
    likelihoods_matrix, \* the caller's likelihoods array
    true_likelihoods,   \* the caller's sequence of actual likelihoods (weights)
    reps,               \* the caller's number of repetitions
    slices,             \* washing_out's list of references, line 75
    draws,              \* the outcomes random.choices has returned so far, in order
    result,             \* what washing_out returned (np.stack), <<>> before that
    raised,             \* the exception that left washing_out, "none" if none
    pc                  \* "call", "loop", "done" or "raised"

vars == <<heap, priors_matrix, likelihoods_matrix, true_likelihoods, reps,
          slices, draws, result, raised, pc>>

-----------------------------------------------------------------------------
(* Numbers *)

Abs(x) == IF x < 0 THEN -x ELSE x

Sign(x) == IF x < 0 THEN -1 ELSE IF x > 0 THEN 1 ELSE 0

RECURSIVE GCD(_, _)
GCD(a, b) == IF b = 0 THEN a ELSE GCD(b, a % b)

\* n/d for d >= 0 in lowest terms; d = 0 gives NaN, +inf or -inf
Norm(n, d) ==
    IF d = 0 THEN <<Sign(n), 0>>
    ELSE LET g == GCD(Abs(n), d) IN <<n \div g, d \div g>>

Q(n, d) == Norm(n, d)

Zero == <<0, 1>>
One == <<1, 1>>
NaN == <<0, 0>>

IsFinite(x) == x[2] # 0
IsNaN(x) == x = NaN

\* float multiplication: inf * 0 = NaN, NaN * x = NaN
\* (common factors are cancelled before multiplying, to keep the integers small)
Mul(x, y) ==
    IF x[2] = 0 \/ y[2] = 0 THEN Norm(x[1] * y[1], x[2] * y[2])
    ELSE LET g == GCD(Abs(x[1]), y[2])
             k == GCD(Abs(y[1]), x[2])
         IN Norm((x[1] \div g) * (y[1] \div k), (x[2] \div k) * (y[2] \div g))

\* float addition: inf + -inf = NaN, inf + inf = inf
Add(x, y) ==
    IF x[2] = 0 /\ y[2] = 0 THEN (IF x = y THEN x ELSE NaN)
    ELSE IF x[2] = 0 \/ y[2] = 0 THEN Norm(x[1] * y[2] + y[1] * x[2], 0)
    ELSE LET g == GCD(x[2], y[2])
         IN Norm(x[1] * (y[2] \div g) + y[1] * (x[2] \div g),
                 (x[2] \div g) * y[2])

\* numpy float division (errstate warn): 0/0 = NaN, x/0 = +-inf, no exception
Div(x, y) ==
    IF x[2] = 0 \/ y[2] = 0 \/ y[1] = 0
    THEN (IF y[1] < 0 THEN Norm(-(x[1] * y[2]), x[2] * (-y[1]))
          ELSE Norm(x[1] * y[2], x[2] * y[1]))
    ELSE Mul(x, <<Sign(y[1]) * y[2], Abs(y[1])>>)

\* x < y and x <= y on floats; every comparison with NaN is false
Less(x, y) ==
    /\ ~IsNaN(x) /\ ~IsNaN(y) /\ x # y
    /\ IF x[2] = 0 THEN x[1] < 0
       ELSE IF y[2] = 0 THEN y[1] > 0
       ELSE x[1] * y[2] < y[1] * x[2]

LessEq(x, y) == ~IsNaN(x) /\ ~IsNaN(y) /\ (x = y \/ Less(x, y))

-----------------------------------------------------------------------------
(* Arrays *)

\* a function on 1..n as the sequence of its values (each computed once)
AsArray(f) == f \o <<>>

NumRows(M) == Len(M)
NumCols(M) == Len(M[1])

\* a product that requires equal row counts and never broadcasts
broadcast_rows_equal_only(n, n2) == IF n = n2 THEN n ELSE 0

\* The row count of a (n,k) * (n2,1) broadcast, 0 when the shapes do not
\* broadcast (numpy raises ValueError)
broadcast_rows(n, n2) ==
    IF n = n2 THEN n
    ELSE IF n = 1 THEN n2
    ELSE IF n2 = 1 THEN n
    ELSE 0

\* row i of an array with n rows broadcast to r rows
BRow(i, n) == IF n = 1 THEN 1 ELSE i

\* priors_matrix + likelihoods_matrix[:, [outcome]] in place of the product
unnormalized_sum(P, L, outcome) ==
    LET r == broadcast_rows(NumRows(P), NumRows(L))
    IN AsArray([i \in 1..r |->
          AsArray([j \in 1..NumCols(P) |->
             Add(P[BRow(i, NumRows(P))][j], L[BRow(i, NumRows(L))][outcome + 1])])])

\* line 36: priors_matrix * likelihoods_matrix[:, [outcome]], shapes broadcasting
unnormalized(P, L, outcome) ==
    LET r == broadcast_rows(NumRows(P), NumRows(L))
    IN AsArray([i \in 1..r |->
          AsArray([j \in 1..NumCols(P) |->
             Mul(P[BRow(i, NumRows(P))][j], L[BRow(i, NumRows(L))][outcome + 1])])])

\* line 37: Python's sum over the rows of a 2-D array, 0 + row_1 + row_2 + ...
RECURSIVE SumRows(_, _, _)
SumRows(U, j, i) ==
    IF i = 0 THEN Zero ELSE Add(SumRows(U, j, i - 1), U[i][j])

\* np.sum(unnormalized) in place of sum(unnormalized): one total for the array
column_sums_whole_array(U) ==
    LET RECURSIVE Tot(_)
        Tot(j) == IF j = 0 THEN Zero ELSE Add(Tot(j - 1), SumRows(U, j, NumRows(U)))
    IN AsArray([j \in 1..NumCols(U) |-> Tot(NumCols(U))])

column_sums(U) == AsArray([j \in 1..NumCols(U) |-> SumRows(U, j, NumRows(U))])

\* line 37: unnormalized / sum(unnormalized), the sums broadcast along the rows
normalize(U) ==
    LET s == column_sums(U)
    IN AsArray([i \in 1..NumRows(U) |->
          AsArray([j \in 1..NumCols(U) |-> Div(U[i][j], s[j])])])

\* lines 36-37 on array values
posteriors(P, L, outcome) == normalize(unnormalized(P, L, outcome))

\* an update whose division raises ZeroDivisionError on a zero column sum, as
\* Python's own float division would
update_zero_division_raises(h, p, L, outcome) ==
    IF broadcast_rows(NumRows(h[p]), NumRows(L)) = 0
    THEN [raised |-> "ValueError", heap |-> h, ret |-> 0]
    ELSE IF \E j \in 1..NumCols(h[p]) :
              column_sums(unnormalized(h[p], L, outcome))[j] = Zero
    THEN [raised |-> "ZeroDivisionError", heap |-> h, ret |-> 0]
    ELSE [raised |-> "none",
          heap |-> Append(h, posteriors(h[p], L, outcome)),
          ret |-> Len(h) + 1]

\* an update that works in place (priors_matrix *= ...; priors_matrix /= ...)
\* and returns its argument
update_in_place(h, p, L, outcome) ==
    IF broadcast_rows(NumRows(h[p]), NumRows(L)) # NumRows(h[p])
    THEN [raised |-> "ValueError", heap |-> h, ret |-> 0]
    ELSE [raised |-> "none",
          heap |-> [h EXCEPT ![p] = posteriors(h[p], L, outcome)],
          ret |-> p]

\* update: raises ValueError when the shapes do not broadcast; otherwise
\* allocates the posteriors as a new array and returns its reference.
update(h, p, L, outcome) ==
    IF broadcast_rows(NumRows(h[p]), NumRows(L)) = 0
    THEN [raised |-> "ValueError", heap |-> h, ret |-> 0]
    ELSE [raised |-> "none",
          heap |-> Append(h, posteriors(h[p], L, outcome)),
          ret |-> Len(h) + 1]

-----------------------------------------------------------------------------
(* random.choices(range(num_outcomes), true_likelihoods, k=1), line 55 *)

\* itertools.accumulate(weights): the running totals
RECURSIVE accumulate(_)
accumulate(w) ==
    IF Len(w) = 0 THEN <<>>
    ELSE LET front == accumulate(SubSeq(w, 1, Len(w) - 1))
         IN Append(front,
                   IF Len(w) = 1 THEN w[1] ELSE Add(front[Len(w) - 1], w[Len(w)]))

\* bisect.bisect_right(a, x, lo, hi) on the 0-based list a
RECURSIVE bisect(_, _, _, _)
bisect(a, x, lo, hi) ==
    IF lo < hi
    THEN LET mid == (lo + hi) \div 2
         IN IF Less(x, a[mid + 1]) THEN bisect(a, x, lo, mid)
            ELSE bisect(a, x, mid + 1, hi)
    ELSE lo

\* One value of random() * total for every way it can compare with the
\* running totals: the totals themselves, 0, and the midpoints between them,
\* kept when they lie in [0, total).
draw_points(cum, total) ==
    LET pts == {Zero} \cup {cum[i] : i \in 1..Len(cum)}
    IN {x \in {Div(Add(p, q), <<2, 1>>) : p, q \in pts} :
          LessEq(Zero, x) /\ Less(x, total)}

\* random.choices as it was before Python 3.9: the total is not checked, and
\* with a total of 0 random() * total is 0
choices_total_unchecked(num_outcomes, weights) ==
    LET cum == accumulate(weights)
    IN IF Len(cum) # num_outcomes
       THEN [raised |-> "ValueError", outcomes |-> {}]
       ELSE [raised |-> "none",
             outcomes |-> {bisect(cum, x, 0, num_outcomes - 1) :
                             x \in draw_points(cum, cum[Len(cum)]) \cup {Zero}}]

\* The call of line 55: the exception it raises, or the set of outcomes it can
\* return.
choices(num_outcomes, weights) ==
    LET cum == accumulate(weights)
    IN IF Len(cum) # num_outcomes
       THEN [raised |-> "ValueError", outcomes |-> {}]
       ELSE LET total == cum[Len(cum)]
            IN IF LessEq(total, Zero) \/ ~IsFinite(total)
               THEN [raised |-> "ValueError", outcomes |-> {}]
               ELSE [raised |-> "none",
                     outcomes |-> {bisect(cum, x, 0, num_outcomes - 1) :
                                     x \in draw_points(cum, total)}]

-----------------------------------------------------------------------------
(* washing_out *)

\* line 77: whether `for _ in range(reps)` runs another round after i rounds
\* range(reps + 1) in place of range(reps)
loop_continues_one_more(i, n) == i <= n

loop_continues(i, n) == i < n

\* np.stack(slices), line 81: a new array holding copies of the slices;
\* ValueError unless all slices have one shape
same_shape(A, B) == NumRows(A) = NumRows(B) /\ NumCols(A) = NumCols(B)

stack(h, refs) ==
    IF \A t \in 1..Len(refs) : same_shape(h[refs[t]], h[refs[1]])
    THEN [raised |-> "none", value |-> AsArray([t \in 1..Len(refs) |-> h[refs[t]]])]
    ELSE [raised |-> "ValueError", value |-> <<>>]

-----------------------------------------------------------------------------
(* The arguments of the modelled calls *)

MaxReps == 2

H == Q(1, 2)

PriorsInputs ==
    { << <<H>>, <<H>> >>,                               \* one agent, uniform
      << <<H, Zero>>, <<H, One>> >>,                    \* agent 2 rules out hypothesis 1
      << <<Q(1, 4), Q(3, 4)>>, <<Q(3, 4), Q(1, 4)>> >>, \* two agents, full support
      << <<H>>, <<Q(1, 4)>>, <<Q(1, 4)>> >>,            \* three hypotheses
      << <<One, One>> >> }                              \* one hypothesis

LikelihoodsInputs ==
    { << <<Q(4, 5), Q(1, 5)>>, <<Q(1, 5), Q(4, 5)>> >>,
      << <<One, Zero>>, <<Zero, One>> >>,               \* each outcome excludes a hypothesis
      << <<H, H>> >>,                                   \* a single row
      << <<Q(-1, 1), Q(2, 1)>>, <<One, Zero>> >>,       \* a negative entry
      << <<Zero, Zero>>, <<H, H>> >>,                   \* a row with total 0
      << <<H, Q(1, 4), Q(1, 4)>>, <<Q(1, 8), Q(3, 8), H>> >> }  \* three outcomes

WeightsInputs ==
    { <<H, H>>,
      <<Q(4, 5), Q(1, 5)>>,
      <<Zero, One>>,
      <<Q(2, 1), One>>,                                 \* not normalised
      <<Zero, Zero>>,                                   \* total 0
      <<Q(-1, 1), Q(2, 1)>>,                            \* negative entry, total 1
      <<Q(1, 3), Q(1, 3), Q(1, 3)>> }                   \* three weights

Init ==
    /\ \E P \in PriorsInputs : heap = <<P>>
    /\ priors_matrix = 1
    /\ likelihoods_matrix \in LikelihoodsInputs
    /\ true_likelihoods \in WeightsInputs
    /\ reps \in 0..MaxReps
    /\ slices = <<>>
    /\ draws = <<>>
    /\ result = <<>>
    /\ raised = "none"
    /\ pc = "call"

args == <<priors_matrix, likelihoods_matrix, true_likelihoods, reps>>

\* line 75: slices = [priors_matrix]
Enter ==
    /\ pc = "call"
    /\ slices' = <<priors_matrix>>
    /\ pc' = "loop"
    /\ UNCHANGED <<heap, args, draws, result, raised>>

\* lines 77-78, 54-55: a round whose random.choices raises
RoundChoicesRaise ==
    /\ pc = "loop"
    /\ loop_continues(Len(slices) - 1, reps)
    /\ LET c == choices(NumCols(likelihoods_matrix), true_likelihoods)
       IN /\ c.raised # "none"
          /\ raised' = c.raised
    /\ pc' = "raised"
    /\ UNCHANGED <<heap, args, slices, draws, result>>

\* lines 77-79, 54-56: a round that draws an outcome and calls update
RoundUpdate ==
    /\ pc = "loop"
    /\ loop_continues(Len(slices) - 1, reps)
    /\ LET c == choices(NumCols(likelihoods_matrix), true_likelihoods)
       IN /\ c.raised = "none"
          /\ \E outcome \in c.outcomes :
               LET u == update(heap, slices[Len(slices)], likelihoods_matrix, outcome)
               IN /\ draws' = Append(draws, outcome)
                  /\ heap' = u.heap
                  /\ IF u.raised = "none"
                     THEN /\ slices' = Append(slices, u.ret)
                          /\ UNCHANGED <<raised, pc>>
                     ELSE /\ raised' = u.raised
                          /\ pc' = "raised"
                          /\ UNCHANGED slices
    /\ UNCHANGED <<args, result>>

\* line 81: return np.stack(slices)
Return ==
    /\ pc = "loop"
    /\ ~loop_continues(Len(slices) - 1, reps)
    /\ LET s == stack(heap, slices)
       IN /\ result' = s.value
          /\ raised' = s.raised
          /\ pc' = IF s.raised = "none" THEN "done" ELSE "raised"
    /\ UNCHANGED <<heap, args, slices, draws>>

Next == Enter \/ RoundChoicesRaise \/ RoundUpdate \/ Return

Spec == Init /\ [][Next]_vars

-----------------------------------------------------------------------------
(* Vocabulary of the properties *)

P0 == heap[priors_matrix]
Snap(t) == heap[slices[t]]
Outcomes == 0..(NumCols(likelihoods_matrix) - 1)
Hyps(M) == 1..NumRows(M)
Agents(M) == 1..NumCols(M)

\* the array update returns for array values P, L (no exception raised)
UpdateValue(P, L, outcome) ==
    LET u == update(<<P>>, 1, L, outcome) IN u.heap[u.ret]

UpdateRaises(P, L, outcome) == update(<<P>>, 1, L, outcome).raised # "none"

AllFinite(M) == \A i \in Hyps(M) : \A j \in Agents(M) : IsFinite(M[i][j])

NonNegative(M) ==
    \A i \in Hyps(M) : \A j \in Agents(M) : IsFinite(M[i][j]) /\ M[i][j][1] >= 0

RECURSIVE SeqSum(_)
SeqSum(w) == IF Len(w) = 0 THEN Zero
             ELSE Add(SeqSum(SubSeq(w, 1, Len(w) - 1)), w[Len(w)])

Column(M, j) == [i \in Hyps(M) |-> M[i][j]]

\* the data model's matrices: non-negative, priors columns and likelihood rows
\* summing to 1, the same hypotheses in both
ColumnStochastic(M) ==
    NonNegative(M) /\ \A j \in Agents(M) : SeqSum(Column(M, j)) = One

RowStochastic(M) ==
    NonNegative(M) /\ \A i \in Hyps(M) : SeqSum(M[i]) = One

RowsMatch == NumRows(P0) = NumRows(likelihoods_matrix)

WeightsMatch == Len(true_likelihoods) = NumCols(likelihoods_matrix)

WeightsTotalPositive == Less(Zero, SeqSum(true_likelihoods))

HasNegative(w) == \E i \in 1..Len(w) : w[i][1] < 0

\* sum over the hypotheses i of prior(i,j) * likelihood(i,o)
RECURSIVE BayesDenominator(_, _, _, _, _)
BayesDenominator(P, L, o, j, n) ==
    IF n = 0 THEN Zero
    ELSE Add(BayesDenominator(P, L, o, j, n - 1), Mul(P[n][j], L[n][o + 1]))

ZeroSum(P, L, o, j) == BayesDenominator(P, L, o, j, NumRows(P)) = Zero

\* the belief states the run has held so far (the priors before line 75)
BeliefStates == {P0} \cup {Snap(t) : t \in 1..Len(slices)}

-----------------------------------------------------------------------------
\* C1: for priors (n x k), likelihoods (n x m) and an outcome o such that every
\* column's unnormalized sum is non-zero, update returns the n x k matrix whose
\* entry (i,j) is prior(i,j) * likelihood(i,o) divided by the sum over i' of
\* prior(i',j) * likelihood(i',o); each round of washing_out stores exactly
\* that matrix for the outcome it drew; and priors [[0.5],[0.5]] with
\* likelihoods [[0.8,0.2],[0.2,0.8]] and outcome 0 give [[0.8],[0.2]].
C1_BayesRule ==
    RowsMatch =>
      \A P \in BeliefStates : \A o \in Outcomes :
        LET L == likelihoods_matrix
            den(j) == BayesDenominator(P, L, o, j, NumRows(P))
        IN (AllFinite(P) /\ \A j \in Agents(P) : den(j) # Zero) =>
             /\ ~UpdateRaises(P, L, o)
             /\ LET V == UpdateValue(P, L, o)
                IN /\ same_shape(V, P)
                   /\ \A i \in Hyps(P) : \A j \in Agents(P) :
                        /\ V[i][j] = Div(Mul(P[i][j], L[i][o + 1]), den(j))
                        /\ Mul(V[i][j], den(j)) = Mul(P[i][j], L[i][o + 1])
                   /\ \A t \in 1..Len(draws) :
                        (P = Snap(t) /\ o = draws[t] /\ t < Len(slices))
                           => Snap(t + 1) = V
                   /\ (/\ P = << <<Q(1, 2)>>, <<Q(1, 2)>> >>
                       /\ L = << <<Q(4, 5), Q(1, 5)>>, <<Q(1, 5), Q(4, 5)>> >>
                       /\ o = 0)
                      => V = << <<Q(4, 5)>>, <<Q(1, 5)>> >>

\* a round has drawn outcome 0 in the example of C1 and stored [[0.8],[0.2]]
C1_Witness ==
    /\ P0 = << <<Q(1, 2)>>, <<Q(1, 2)>> >>
    /\ likelihoods_matrix = << <<Q(4, 5), Q(1, 5)>>, <<Q(1, 5), Q(4, 5)>> >>
    /\ Len(slices) = 2 /\ draws = <<0>>
    /\ Snap(2) = << <<Q(4, 5)>>, <<Q(1, 5)>> >>

-----------------------------------------------------------------------------
C2_WitnessZero == pc = "done" /\ reps = 0 /\ result = <<P0>>

-----------------------------------------------------------------------------
(* C3 *)

ValidMatrices ==
    RowsMatch /\ ColumnStochastic(P0) /\ RowStochastic(likelihoods_matrix)

SumsToOne(M, j) == SeqSum(Column(M, j)) = One

StochasticColumn(M, j) ==
    /\ \A i \in Hyps(M) : IsFinite(M[i][j]) /\ M[i][j][1] >= 0
    /\ SumsToOne(M, j)

NaNColumn(M, j) == \A i \in Hyps(M) : M[i][j] = NaN

\* C3 as stated: for valid priors (entries >= 0, columns summing to 1) and
\* likelihoods (entries >= 0, rows summing to 1) and every outcome in [0, m),
\* every column of update's output sums to 1, and so does every column of
\* every snapshot of a trajectory.
C3_AlwaysColumnStochastic ==
    ValidMatrices =>
      \A t \in 1..(Len(slices) - 1) : \A j \in Agents(P0) :
        /\ Snap(t + 1) = UpdateValue(Snap(t), likelihoods_matrix, draws[t])
        /\ SumsToOne(Snap(t + 1), j)

\* C3, amended: for valid priors and likelihoods and every outcome in [0, m),
\* every column of update's output whose unnormalized sum is non-zero has
\* entries >= 0 summing to 1, and a column whose unnormalized sum is zero comes
\* out all NaN; hence every column of every snapshot of a trajectory either
\* sums to 1 or is all NaN (and stays NaN).
C3_StochasticOrNaN ==
    ValidMatrices =>
      \A P \in BeliefStates : \A j \in Agents(P) :
        /\ StochasticColumn(P, j) \/ NaNColumn(P, j)
        /\ \A o \in Outcomes :
             LET V == UpdateValue(P, likelihoods_matrix, o)
             IN IF StochasticColumn(P, j) /\ ~ZeroSum(P, likelihoods_matrix, o, j)
                THEN StochasticColumn(V, j)
                ELSE NaNColumn(V, j)

\* a round on valid matrices has left one agent's column summing to 1 and
\* another agent's column all NaN
C3_Witness ==
    /\ ValidMatrices
    /\ \E t \in 2..Len(slices) : \E j, j2 \in Agents(P0) :
         /\ NaNColumn(Snap(t), j)
         /\ StochasticColumn(Snap(t - 1), j)
         /\ StochasticColumn(Snap(t), j2)
         /\ Snap(t) # Snap(t - 1)

-----------------------------------------------------------------------------
(* C4 *)

NonNegativeMatrices ==
    RowsMatch /\ NonNegative(P0) /\ NonNegative(likelihoods_matrix)

\* column j had a zero unnormalized sum in one of the rounds before snapshot t
ZeroSumBefore(t, j) ==
    \E s \in 1..(t - 1) : ZeroSum(Snap(s), likelihoods_matrix, draws[s], j)

\* C4 as stated: if agent j's initial prior on hypothesis i is exactly 0, agent
\* j's credence in hypothesis i is exactly 0 in every snapshot, whatever is
\* drawn.
C4_ZeroStaysZero ==
    ValidMatrices =>
      \A t \in 1..Len(slices) : \A i \in Hyps(P0) : \A j \in Agents(P0) :
        P0[i][j] = Zero => Snap(t)[i][j] = Zero

\* C4, amended: if agent j's initial prior on hypothesis i is exactly 0 (priors
\* and likelihoods non-negative), agent j's credence in hypothesis i is never
\* positive in any snapshot: it is exactly 0 in every snapshot up to the first
\* update in which column j's unnormalized sum is zero, and NaN in every
\* snapshot after that update.
C4_ZeroOrNaN ==
    NonNegativeMatrices =>
      \A t \in 1..Len(slices) : \A i \in Hyps(P0) : \A j \in Agents(P0) :
        P0[i][j] = Zero =>
          /\ Snap(t)[i][j] = (IF ZeroSumBefore(t, j) THEN NaN ELSE Zero)
          /\ pc = "done" => result[t][i][j] = Snap(t)[i][j]

\* a zero prior was still 0 after one update and NaN after the next
C4_Witness ==
    /\ NonNegativeMatrices
    /\ Len(slices) = 3
    /\ \E i \in Hyps(P0) : \E j \in Agents(P0) :
         /\ P0[i][j] = Zero
         /\ Snap(2)[i][j] = Zero /\ Snap(2) # P0
         /\ Snap(3)[i][j] = NaN

-----------------------------------------------------------------------------
(* C5 *)

\* round t multiplied column j to an all-zero column
ZeroSumRound(t, j) ==
    /\ t \in 1..Len(draws) /\ t <= Len(slices)
    /\ ZeroSum(Snap(t), likelihoods_matrix, draws[t], j)

\* C5 as stated: when a column's unnormalized sum is zero during an update,
\* the update fails with an error surfaced at once: update returns no posterior
\* matrix and washing_out returns no trajectory.
C5_ZeroSumRaises ==
    ValidMatrices =>
      \A t \in 1..Len(draws) : \A j \in Agents(P0) :
        ZeroSumRound(t, j) =>
          /\ Len(slices) = t
          /\ pc = "raised"
          /\ result = <<>>

\* C5, amended: when a column's unnormalized sum is zero during an update
\* (priors and likelihoods non-negative, of matching dimensions), no error is
\* raised: update returns a posterior matrix in which that column is all NaN,
\* the columns with a non-zero sum being normalised as usual, and washing_out
\* runs its remaining rounds and returns the full trajectory of reps + 1
\* snapshots, that column NaN in every snapshot after the round.
C5_ZeroSumGivesNaN ==
    NonNegativeMatrices =>
      \A t \in 1..Len(draws) : \A j \in Agents(P0) :
        ZeroSumRound(t, j) =>
          /\ Len(slices) >= t + 1
          /\ \A s \in (t + 1)..Len(slices) : NaNColumn(Snap(s), j)
          /\ \A j2 \in Agents(P0) :
               (/\ \A i \in Hyps(P0) : IsFinite(Snap(t)[i][j2])
                /\ ~ZeroSum(Snap(t), likelihoods_matrix, draws[t], j2))
               => SumsToOne(Snap(t + 1), j2)
          /\ pc # "raised" /\ raised = "none"
          /\ pc = "done" =>
               /\ Len(result) = reps + 1
               /\ \A s \in (t + 1)..(reps + 1) : NaNColumn(result[s], j)

\* the first of two rounds had a zero-sum column and a non-zero-sum column,
\* and washing_out returned all three snapshots
C5_Witness ==
    /\ NonNegativeMatrices
    /\ pc = "done" /\ reps = 2 /\ Len(result) = 3
    /\ \E j, j2 \in Agents(P0) :
         /\ ZeroSumRound(1, j) /\ ~ZeroSumRound(1, j2)
         /\ NaNColumn(result[2], j) /\ NaNColumn(result[3], j)
         /\ SumsToOne(result[2], j2)

-----------------------------------------------------------------------------
(* C6 *)

RowsDiffer == NumRows(P0) # NumRows(likelihoods_matrix)

ColsDiffer == NumCols(likelihoods_matrix) # Len(true_likelihoods)

\* numpy's rule for the two row counts: equal, or one of them 1
RowsBroadcast ==
    \/ NumRows(P0) = NumRows(likelihoods_matrix)
    \/ NumRows(P0) = 1
    \/ NumRows(likelihoods_matrix) = 1

NoUpdateDone == Len(slices) <= 1 /\ Len(heap) = 1

RaisedValueError == pc = "raised" => (raised = "ValueError" /\ result = <<>>)

\* C6 as stated: whenever priors and likelihoods differ in their number of
\* rows, or the likelihoods' number of columns differs from the length of
\* true_likelihoods, the call fails with an error and produces no result: no
\* posterior matrix and no trajectory (stated for reps >= 1, where washing_out
\* does run a round, and for non-negative entries and weights).
C6_MismatchRaises ==
    (/\ reps >= 1
     /\ NonNegative(P0) /\ NonNegative(likelihoods_matrix)
     /\ ~HasNegative(true_likelihoods)
     /\ RowsDiffer \/ ColsDiffer) =>
      /\ NoUpdateDone
      /\ pc # "done"
      /\ RaisedValueError

\* C6, amended: when the likelihoods' number of columns differs from the length
\* of true_likelihoods, random_update, and washing_out with reps >= 1, fail
\* with a ValueError in the first draw, before any update; when the numbers of
\* rows differ and neither is 1, update, and washing_out with reps >= 1 once
\* an outcome is drawn, fail with a ValueError and produce no posterior.
\* Nothing is checked otherwise: washing_out with reps = 0 returns the
\* one-snapshot trajectory whatever the dimensions, and when one of the two row
\* counts is 1 update broadcasts and returns a result (washing_out then
\* returns a trajectory if it is the likelihoods that have one row, and fails
\* only in the final np.stack if it is the priors).
C6_WhereMismatchRaises ==
    /\ ColsDiffer =>
         /\ choices(NumCols(likelihoods_matrix), true_likelihoods).raised = "ValueError"
         /\ draws = <<>> /\ NoUpdateDone
         /\ pc = "done" => reps = 0
         /\ RaisedValueError
    /\ (RowsDiffer /\ ~RowsBroadcast) =>
         /\ \A o \in Outcomes : UpdateRaises(P0, likelihoods_matrix, o)
         /\ Len(draws) <= 1 /\ NoUpdateDone
         /\ pc = "done" => reps = 0
         /\ RaisedValueError
    /\ reps = 0 =>
         /\ pc # "raised"
         /\ pc = "done" => result = <<P0>>
    /\ (RowsDiffer /\ RowsBroadcast /\ WeightsMatch /\ WeightsTotalPositive) =>
         /\ \A o \in Outcomes : ~UpdateRaises(P0, likelihoods_matrix, o)
         /\ pc = "loop" => Len(slices) = Len(draws) + 1
         /\ IF NumRows(likelihoods_matrix) = 1
            THEN /\ pc # "raised"
                 /\ pc = "done" => Len(result) = reps + 1
            ELSE /\ reps >= 1 => pc # "done"
                 /\ pc = "raised" =>
                      /\ Len(slices) = reps + 1 /\ Len(draws) = reps
                      /\ RaisedValueError

\* a call with three weights for two outcomes has failed in its first draw
C6_Witness ==
    /\ ColsDiffer /\ reps >= 1
    /\ pc = "raised" /\ raised = "ValueError"
    /\ draws = <<>> /\ slices = <<priors_matrix>>

\* a call with three rows of priors and two of likelihoods has failed in update
C6_WitnessRows ==
    /\ RowsDiffer /\ ~RowsBroadcast
    /\ pc = "raised" /\ Len(draws) = 1 /\ slices = <<priors_matrix>>

\* a call with two rows of priors and one of likelihoods has returned a trajectory
C6_WitnessBroadcast ==
    /\ RowsDiffer /\ pc = "done" /\ reps = 2 /\ Len(result) = 3

\* a call with one row of priors and two of likelihoods has failed in np.stack
C6_WitnessStack ==
    /\ RowsDiffer /\ pc = "raised" /\ Len(slices) = reps + 1 /\ reps >= 1

-----------------------------------------------------------------------------
(* C7 *)

NotProbabilities(w) == HasNegative(w) \/ ~Less(Zero, SeqSum(w))

BadLikelihoodsRow ==
    \E i \in Hyps(likelihoods_matrix) : NotProbabilities(likelihoods_matrix[i])

\* C7 as stated: if true_likelihoods, or a row of likelihoods_matrix, has a
\* negative value or does not sum to a positive total, the call fails with an
\* error before any outcome is sampled and before any update is applied
\* (stated for reps >= 1 and matching dimensions).
C7_BadVectorRaises ==
    (reps >= 1 /\ RowsMatch /\ WeightsMatch /\
     (NotProbabilities(true_likelihoods) \/ BadLikelihoodsRow)) =>
      /\ draws = <<>>
      /\ NoUpdateDone
      /\ pc # "done"
      /\ RaisedValueError

\* C7, amended: if true_likelihoods does not sum to a positive total,
\* random_update, and washing_out with reps >= 1, fail with a ValueError before
\* any outcome is sampled and before any update is applied.  A negative entry
\* of true_likelihoods whose total is positive, and a row of likelihoods_matrix
\* that has a negative entry or no positive total, are not rejected: the call
\* samples, updates and returns.
C7_OnlyTotalChecked ==
    /\ ~WeightsTotalPositive =>
         /\ choices(NumCols(likelihoods_matrix), true_likelihoods).raised = "ValueError"
         /\ draws = <<>> /\ NoUpdateDone
         /\ pc = "done" => reps = 0
         /\ RaisedValueError
    /\ (RowsMatch /\ WeightsMatch /\ WeightsTotalPositive /\
        (HasNegative(true_likelihoods) \/ BadLikelihoodsRow)) =>
         /\ choices(NumCols(likelihoods_matrix), true_likelihoods).raised = "none"
         /\ pc # "raised"
         /\ pc = "loop" => Len(slices) = Len(draws) + 1
         /\ pc = "done" => Len(result) = reps + 1

\* a call with weights of total 0 has failed before its first draw
C7_Witness ==
    /\ RowsMatch /\ WeightsMatch /\ ~WeightsTotalPositive
    /\ reps >= 1 /\ pc = "raised" /\ raised = "ValueError"
    /\ draws = <<>> /\ slices = <<priors_matrix>>

\* a call with a negative weight and a likelihoods row of total 0 has returned
C7_WitnessAccepted ==
    /\ HasNegative(true_likelihoods) /\ BadLikelihoodsRow
    /\ pc = "done" /\ reps = 2 /\ Len(result) = 3

-----------------------------------------------------------------------------
\* C8: no step of washing_out (and so no call of random_update or update in
\* it) changes its arguments or an earlier result: priors_matrix,
\* likelihoods_matrix and true_likelihoods keep their values, no array that
\* exists is written, the snapshots already in slices stay the same objects
\* with the same values, and a round appends a newly allocated array.
C8_NoMutation ==
    [][/\ priors_matrix' = priors_matrix
       /\ heap'[priors_matrix'] = heap[priors_matrix]
       /\ likelihoods_matrix' = likelihoods_matrix
       /\ true_likelihoods' = true_likelihoods
       /\ \A r \in 1..Len(heap) : heap'[r] = heap[r]
       /\ Len(slices') >= Len(slices)
       /\ \A t \in 1..Len(slices) :
            slices'[t] = slices[t] /\ heap'[slices'[t]] = heap[slices[t]]
       /\ \A t \in (Len(slices) + 1)..Len(slices') :
            pc = "loop" => slices'[t] > Len(heap)]_vars

\* two rounds have run, each on a belief state that its update changed, and
\* the call has returned
C8_Witness ==
    /\ pc = "done" /\ Len(slices) = 3
    /\ slices[1] = priors_matrix
    /\ Snap(2) # Snap(1) /\ Snap(3) # Snap(2)
    /\ result = <<Snap(1), Snap(2), Snap(3)>>

-----------------------------------------------------------------------------
\* C10: for non-negative priors P and likelihoods L and outcomes a, b in
\* [0, m), update(update(P, L, a), L, b) = update(update(P, L, b), L, a),
\* also when a column becomes undefined (NaN) on the way; so the belief state
\* after two rounds is the one the two draws give in the other order.
C10_OrderIrrelevant ==
    NonNegativeMatrices =>
      /\ \A P \in BeliefStates : \A a, b \in Outcomes :
           UpdateValue(UpdateValue(P, likelihoods_matrix, a), likelihoods_matrix, b)
             = UpdateValue(UpdateValue(P, likelihoods_matrix, b), likelihoods_matrix, a)
      /\ \A t \in 1..(Len(slices) - 2) :
           Snap(t + 2) =
             UpdateValue(UpdateValue(Snap(t), likelihoods_matrix, draws[t + 1]),
                         likelihoods_matrix, draws[t])

\* two rounds have drawn two different outcomes, each changing the belief state
C10_Witness ==
    /\ NonNegativeMatrices
    /\ Len(slices) = 3 /\ draws[1] # draws[2]
    /\ AllFinite(Snap(3))
    /\ Snap(2) # Snap(1) /\ Snap(3) # Snap(2) /\ Snap(3) # Snap(1)

\* two rounds with different outcomes, a column undefined after the second only
C10_WitnessNaN ==
    /\ NonNegativeMatrices
    /\ Len(slices) = 3 /\ draws[1] # draws[2]
    /\ AllFinite(Snap(2))
    /\ \E j \in Agents(P0) : NaNColumn(Snap(3), j)

====
